---- MODULE Spec2Model ----
(***************************************************************************)
(* The folder-based OCR job queue of automate_pdf24: the background        *)
(* worker's scheduling loop (worker.pyw), the two leases that serialise it *)
(* with the interactive app, the two-phase claim/dispatch batch and the    *)
(* per-job retry/quarantine policy.                                        *)
(*                                                                         *)
(* worker.pyw is modelled from its source.  ocr_processor.py and utils.py  *)
(* (get_pending_files, prepare_batch_for_processing, process_single_pdf,   *)
(* LockManager) and app.py are not part of the source tree at hand; they   *)
(* are modelled from the design document, and marked so in the map.        *)
(***************************************************************************)
EXTENDS Integers, Sequences, FiniteSets, TLC

(***************************************************************************)
(* Bounds of the model.                                                    *)
(***************************************************************************)
MaxArrivals == 2
MaxCrashes == 1
MaxSettingsChanges == 2
MaxWorkers == 2

(***************************************************************************)
(* File names are sequences of characters, so that lower() and endswith()  *)
(* are computed, not assumed.                                              *)
(***************************************************************************)
FA == <<"a", ".", "p", "d", "f">>
FB == <<"b", ".", "p", "d", "f">>
FAUpper == <<"A", ".", "P", "D", "F">>
FBTxt == <<"b", ".", "t", "x", "t">>

Names == {FA, FB}
ResolverNames == {FA, FB, FAUpper, FBTxt}

LowerChar(c) ==
    CASE c = "A" -> "a"
      [] c = "B" -> "b"
      [] c = "P" -> "p"
      [] c = "D" -> "d"
      [] c = "F" -> "f"
      [] OTHER -> c

lower(s) == [i \in 1..Len(s) |-> LowerChar(s[i])]

endswith(s, suffix) ==
    /\ Len(s) >= Len(suffix)
    /\ SubSeq(s, Len(s) - Len(suffix) + 1, Len(s)) = suffix

\* f.lower().endswith('.pdf')
IsPdf(f) == endswith(lower(f), <<".", "p", "d", "f">>)

(***************************************************************************)
(* Processes and leases.                                                   *)
(***************************************************************************)
Procs == {"w1", "w2", "app"}
Workers == {"w1", "w2"}

APP_LOCK == "streamlit_app"
WORKER_LOCK == "background_worker"
Locks == {APP_LOCK, WORKER_LOCK}

\* The lease a front-end takes for its own batch, and the one it probes.
OwnLock(p) == IF p = "app" THEN APP_LOCK ELSE WORKER_LOCK
OtherLock(p) == IF p = "app" THEN WORKER_LOCK ELSE APP_LOCK

\* A retry budget one smaller than the one the calls pass: the file moves to
\* Error after two failed invocations
max_retries_minus_one == 2 - 1

\* A retry budget one larger than the one the calls pass
max_retries_plus_one == 1 + 2

\* max_retries=2 in the call of process_batch / process_single_pdf
max_retries == 2

VARIABLES
    inp, proc, outp, err, dup,   \* the five folders: sets of file names
    lease,                       \* the lease files, by lock name
    settingsFile,                \* auto_start.json
    pc,                          \* each process's position in main()
    settings,                    \* each process's snapshot of the settings
    pending,                     \* get_pending_files' result of the cycle
    todo,                        \* files the claim phase has still to handle
    ready,                       \* ready_files: claimed into Processing
    tosubmit,                    \* ready files not yet submitted to the pool
    job,                         \* state of each submitted adapter call
    attempts,                    \* failed invocations inside one adapter call
    counts,                      \* (success_count, fail_count) of the batch
    exitKind,                    \* how the last cycle of a process ended
    claimCount, submitCount,     \* history: moves / submissions in the cycle
    invocations,                 \* history: OCR invocations per file name
    takeovers,                   \* history: abandoned leases taken over
    arrivals, crashes, changes,  \* counters bounding the environment
    shutdown,                    \* _shutdown_requested of each process
    partial                      \* output artifacts the OCR tool is writing

folders == <<inp, proc, outp, err, dup>>
history == <<invocations, takeovers>>
batchVars == <<pending, todo, ready, tosubmit, job, attempts, counts,
               claimCount, submitCount>>
envVars == <<arrivals, crashes, changes>>
sideVars == <<shutdown, partial>>
vars == <<inp, proc, outp, err, dup, lease, settingsFile, pc, settings,
          pending, todo, ready, tosubmit, job, attempts, counts, exitKind,
          claimCount, submitCount, invocations, takeovers, arrivals,
          crashes, changes, shutdown, partial>>

(***************************************************************************)
(* Settings.                                                               *)
(***************************************************************************)
\* MAX_WORKERS of config.py, as the README gives it
MAX_WORKERS == 22

\* The workers values a settings file can hold; load_settings passes the
\* number on as it reads it
WorkerValues == 0..MaxWorkers

SettingsValues ==
    [auto_start : BOOLEAN, workers : WorkerValues, delete_input : BOOLEAN]

\* json.load of the settings file merged over the defaults.  The file of the
\* model always carries the three fields the batch reads.
load_settings == settingsFile

\* The settings local of main() outside an iteration of the loop: every
\* iteration assigns it before reading it, so its old value is never seen
NoSettings == [auto_start |-> FALSE, workers |-> 0, delete_input |-> FALSE]

(***************************************************************************)
(* load_settings as a function of what the settings file holds.            *)
(***************************************************************************)
\* The five fields of the settings record
SettingsFields == {"auto_start", "workers", "language", "deskew", "delete_input"}

\* DEFAULT_WORKERS of config.py, as the README gives it
DEFAULT_WORKERS == 10

\* OCR_LANGUAGES of config.py, as the README gives it
OCR_LANGUAGES == "eng+kan"

Languages == {OCR_LANGUAGES, "eng"}

\* The defaults dict of the first definition of load_settings
defaults ==
    [auto_start |-> FALSE, workers |-> DEFAULT_WORKERS,
     language |-> OCR_LANGUAGES, deskew |-> TRUE]

\* The defaults dict of the second definition of load_settings
defaults_second ==
    [workers |-> DEFAULT_WORKERS, language |-> OCR_LANGUAGES,
     deskew |-> TRUE, delete_input |-> TRUE]

\* {**defaults, **data}: the keys of both, data's value where it has the key
Merge(d, data) ==
    [k \in DOMAIN d \cup DOMAIN data |->
        IF k \in DOMAIN data THEN data[k] ELSE d[k]]

\* A field of the file: absent, or present with one of its values
Opt(S) == {<<>>} \cup {<<v>> : v \in S}

\* The JSON object that holds the fields chosen in opts
FileData(opts) ==
    [k \in {f \in SettingsFields : Len(opts[f]) = 1} |-> opts[k][1]]

FileMappings ==
    {FileData([auto_start |-> a, workers |-> w, language |-> l,
               deskew |-> d, delete_input |-> x]) :
        a \in Opt(BOOLEAN), w \in Opt(WorkerValues), l \in Opt(Languages),
        d \in Opt(BOOLEAN), x \in Opt(BOOLEAN)}

\* What SETTINGS_FILE can be: missing; not JSON; JSON that is no object (a
\* list); a JSON object with any of the five fields
FileContents ==
    {[kind |-> "object", data |-> m] : m \in FileMappings}
        \cup {[kind |-> k, data |-> FileData([f \in SettingsFields |-> <<>>])] :
                 k \in {"missing", "malformed", "list"}}

\* load_settings: os.path.exists fails, or json.load raises, or the merge of
\* a non-mapping raises TypeError and the except branch logs: the defaults;
\* else the merge
load_settings_of(d, file) ==
    IF file.kind = "object" THEN Merge(d, file.data) ELSE d

(***************************************************************************)
(* LockManager: a lease is free, or held by an owner; the owner may have   *)
(* died without releasing it, and the timestamp may be older than the      *)
(* staleness threshold.                                                    *)
(***************************************************************************)
FreeLease == [held |-> FALSE, owner |-> "none", dead |-> FALSE, stale |-> FALSE]

\* A lease that is abandoned: older than the threshold and its holder gone.
Abandoned(l) == lease[l].held /\ lease[l].stale /\ lease[l].dead

is_locked(l) == lease[l].held /\ ~Abandoned(l)

CanAcquire(l) == ~lease[l].held \/ Abandoned(l)

Acquired(l, p) ==
    [lease EXCEPT ![l] = [held |-> TRUE, owner |-> p, dead |-> FALSE,
                          stale |-> FALSE]]

Holds(p, l) == lease[l].held /\ lease[l].owner = p /\ ~lease[l].dead

Released(l, p) == IF Holds(p, l) THEN [lease EXCEPT ![l] = FreeLease] ELSE lease

(***************************************************************************)
(* Pending-File Resolver.                                                  *)
(***************************************************************************)
LowerNames(folder) == {lower(f) : f \in folder}

get_pending_files(input, output, duplicate, error) ==
    LET processed == LowerNames(output) \cup LowerNames(duplicate)
                        \cup LowerNames(error)
    IN  {f \in input : IsPdf(f) /\ lower(f) \notin processed}

(***************************************************************************)
(* The state after construction: empty folders, free leases, every started *)
(* process at the top of its loop, about to poll.                          *)
(***************************************************************************)
NoFiles == [f \in Names |-> 0]
NoJobs == [f \in Names |-> "none"]

InitWith(started, choices) ==
    /\ inp = {} /\ proc = {} /\ outp = {} /\ err = {} /\ dup = {}
    /\ lease = [l \in Locks |-> FreeLease]
    /\ settingsFile \in choices
    /\ pc = [p \in Procs |-> IF p \in started THEN "idle" ELSE "absent"]
    /\ settings = [p \in Procs |-> NoSettings]
    /\ pending = [p \in Procs |-> {}]
    /\ todo = [p \in Procs |-> {}]
    /\ ready = [p \in Procs |-> {}]
    /\ tosubmit = [p \in Procs |-> {}]
    /\ job = [p \in Procs |-> NoJobs]
    /\ attempts = [p \in Procs |-> NoFiles]
    /\ counts = [p \in Procs |-> <<0, 0>>]
    /\ exitKind = [p \in Procs |-> "none"]
    /\ claimCount = [p \in Procs |-> NoFiles]
    /\ submitCount = [p \in Procs |-> NoFiles]
    /\ invocations = NoFiles
    /\ takeovers = 0
    /\ arrivals = 0 /\ crashes = 0 /\ changes = 0
    /\ shutdown = [p \in Procs |-> FALSE]
    /\ partial = {}

(***************************************************************************)
(* main(): one scheduling cycle of a front-end.                            *)
(***************************************************************************)
\* any(f.lower().endswith('.pdf')) over Input, then over Processing
has_work == (\E f \in inp : IsPdf(f)) \/ (\E f \in proc : IsPdf(f))

\* settings = load_settings(); the auto_start gate; the quick has_work check
main_check(p) ==
    /\ pc[p] = "idle"
    /\ ~shutdown[p]
    /\ IF load_settings.auto_start /\ has_work
       THEN /\ settings' = [settings EXCEPT ![p] = load_settings]
            /\ pc' = [pc EXCEPT ![p] = "probe"]
       ELSE /\ settings' = [settings EXCEPT ![p] = NoSettings]
            /\ pc' = [pc EXCEPT ![p] = "idle"]
    /\ exitKind' = [exitKind EXCEPT ![p] = "none"]
    /\ UNCHANGED <<sideVars, folders, lease, settingsFile, batchVars, history,
                   envVars>>

\* The second definition of main: while True, settings = load_settings(),
\* then the quick has_work check at once; the record's auto_start field is
\* not looked at
main_check_second(p) ==
    /\ pc[p] = "idle"
    /\ IF has_work
       THEN /\ settings' = [settings EXCEPT ![p] = load_settings]
            /\ pc' = [pc EXCEPT ![p] = "probe"]
       ELSE /\ settings' = [settings EXCEPT ![p] = NoSettings]
            /\ pc' = [pc EXCEPT ![p] = "idle"]
    /\ exitKind' = [exitKind EXCEPT ![p] = "none"]
    /\ UNCHANGED <<sideVars, folders, lease, settingsFile, batchVars, history,
                   envVars>>

\* A main() that leaves its loop when the other front-end's lease is held
main_probe_once(p) ==
    /\ pc[p] = "probe"
    /\ IF is_locked(OtherLock(p))
       THEN /\ pc' = [pc EXCEPT ![p] = "stopped"]
            /\ exitKind' = [exitKind EXCEPT ![p] = "conflict"]
            /\ settings' = [settings EXCEPT ![p] = NoSettings]
       ELSE /\ pc' = [pc EXCEPT ![p] = "acquire"]
            /\ UNCHANGED <<exitKind, settings>>
    /\ UNCHANGED <<sideVars, folders, lease, settingsFile, batchVars, history,
                   envVars>>

\* if APP_LOCK.is_locked(): sleep; continue
main_probe(p) ==
    /\ pc[p] = "probe"
    /\ IF is_locked(OtherLock(p))
       THEN /\ pc' = [pc EXCEPT ![p] = "idle"]
            /\ exitKind' = [exitKind EXCEPT ![p] = "conflict"]
            /\ settings' = [settings EXCEPT ![p] = NoSettings]
       ELSE /\ pc' = [pc EXCEPT ![p] = "acquire"]
            /\ UNCHANGED <<exitKind, settings>>
    /\ UNCHANGED <<sideVars, folders, lease, settingsFile, batchVars, history,
                   envVars>>

\* A main() that ignores the result of acquire() and runs the batch anyway
main_acquire_unchecked(p) ==
    /\ pc[p] = "acquire"
    /\ IF CanAcquire(OwnLock(p))
       THEN /\ lease' = Acquired(OwnLock(p), p)
            /\ takeovers' = IF Abandoned(OwnLock(p)) THEN takeovers + 1
                            ELSE takeovers
       ELSE UNCHANGED <<lease, takeovers>>
    /\ pc' = [pc EXCEPT ![p] = "batch"]
    /\ UNCHANGED <<sideVars, folders, settingsFile, settings, batchVars, invocations,
                   exitKind, envVars>>

\* An acquire() that goes by the age of the lease alone: a lease older than
\* the threshold is taken whether or not its holder is running
main_acquire_by_age(p) ==
    /\ pc[p] = "acquire"
    /\ IF ~lease[OwnLock(p)].held \/ lease[OwnLock(p)].stale
       THEN /\ lease' = Acquired(OwnLock(p), p)
            /\ takeovers' = IF lease[OwnLock(p)].held THEN takeovers + 1
                            ELSE takeovers
            /\ pc' = [pc EXCEPT ![p] = "batch"]
            /\ UNCHANGED <<exitKind, settings>>
       ELSE /\ pc' = [pc EXCEPT ![p] = "idle"]
            /\ exitKind' = [exitKind EXCEPT ![p] = "refused"]
            /\ settings' = [settings EXCEPT ![p] = NoSettings]
            /\ UNCHANGED <<lease, takeovers>>
    /\ UNCHANGED <<sideVars, folders, settingsFile, batchVars, invocations,
                   envVars>>

\* A main() that leaves its loop when acquire() is refused
main_acquire_once(p) ==
    /\ pc[p] = "acquire"
    /\ IF CanAcquire(OwnLock(p))
       THEN /\ lease' = Acquired(OwnLock(p), p)
            /\ takeovers' = IF Abandoned(OwnLock(p)) THEN takeovers + 1
                            ELSE takeovers
            /\ pc' = [pc EXCEPT ![p] = "batch"]
            /\ UNCHANGED <<exitKind, settings>>
       ELSE /\ pc' = [pc EXCEPT ![p] = "stopped"]
            /\ exitKind' = [exitKind EXCEPT ![p] = "refused"]
            /\ settings' = [settings EXCEPT ![p] = NoSettings]
            /\ UNCHANGED <<lease, takeovers>>
    /\ UNCHANGED <<sideVars, folders, settingsFile, batchVars, invocations, envVars>>

\* if not WORKER_LOCK.acquire(): sleep; continue
main_acquire(p) ==
    /\ pc[p] = "acquire"
    /\ IF CanAcquire(OwnLock(p))
       THEN /\ lease' = Acquired(OwnLock(p), p)
            /\ takeovers' = IF Abandoned(OwnLock(p)) THEN takeovers + 1
                            ELSE takeovers
            /\ pc' = [pc EXCEPT ![p] = "batch"]
            /\ UNCHANGED <<exitKind, settings>>
       ELSE /\ pc' = [pc EXCEPT ![p] = "idle"]
            /\ exitKind' = [exitKind EXCEPT ![p] = "refused"]
            /\ settings' = [settings EXCEPT ![p] = NoSettings]
            /\ UNCHANGED <<lease, takeovers>>
    /\ UNCHANGED <<sideVars, folders, settingsFile, batchVars, invocations, envVars>>

\* A main() whose release() follows the batch without a finally: a batch
\* that raises skips it
main_release_no_finally(p) ==
    /\ pc[p] = "release"
    /\ lease' = IF exitKind[p] = "exception" THEN lease
                ELSE Released(OwnLock(p), p)
    /\ pc' = [pc EXCEPT ![p] = "idle"]
    /\ pending' = [pending EXCEPT ![p] = {}]
    /\ todo' = [todo EXCEPT ![p] = {}]
    /\ ready' = [ready EXCEPT ![p] = {}]
    /\ tosubmit' = [tosubmit EXCEPT ![p] = {}]
    /\ job' = [job EXCEPT ![p] = NoJobs]
    /\ attempts' = [attempts EXCEPT ![p] = NoFiles]
    /\ counts' = [counts EXCEPT ![p] = <<0, 0>>]
    /\ claimCount' = [claimCount EXCEPT ![p] = NoFiles]
    /\ submitCount' = [submitCount EXCEPT ![p] = NoFiles]
    /\ settings' = [settings EXCEPT ![p] = NoSettings]
    /\ UNCHANGED <<sideVars, folders, settingsFile, exitKind, history, envVars>>

\* finally: WORKER_LOCK.release(); then time.sleep(CHECK_INTERVAL), on the
\* normal path and in the except branch alike; the locals of the cycle are
\* gone
main_release(p) ==
    /\ pc[p] = "release"
    /\ lease' = Released(OwnLock(p), p)
    /\ pc' = [pc EXCEPT ![p] = "idle"]
    /\ pending' = [pending EXCEPT ![p] = {}]
    /\ todo' = [todo EXCEPT ![p] = {}]
    /\ ready' = [ready EXCEPT ![p] = {}]
    /\ tosubmit' = [tosubmit EXCEPT ![p] = {}]
    /\ job' = [job EXCEPT ![p] = NoJobs]
    /\ attempts' = [attempts EXCEPT ![p] = NoFiles]
    /\ counts' = [counts EXCEPT ![p] = <<0, 0>>]
    /\ claimCount' = [claimCount EXCEPT ![p] = NoFiles]
    /\ submitCount' = [submitCount EXCEPT ![p] = NoFiles]
    /\ settings' = [settings EXCEPT ![p] = NoSettings]
    /\ UNCHANGED <<sideVars, folders, settingsFile, exitKind, history, envVars>>

(***************************************************************************)
(* run_batch / process_batch: the claim phase.                             *)
(***************************************************************************)
\* Input files that are not pending because their output exists already
DuplicateCandidates ==
    {f \in inp : IsPdf(f) /\ lower(f) \in LowerNames(outp)}

\* A run_batch that loads the settings again before it starts the batch
run_batch_reloading(p) ==
    /\ pc[p] = "batch"
    /\ settings' = [settings EXCEPT ![p] = load_settings]
    /\ pending' = [pending EXCEPT ![p] = get_pending_files(inp, outp, dup, err)]
    /\ todo' = [todo EXCEPT ![p] =
                   get_pending_files(inp, outp, dup, err)
                       \cup {f \in inp : IsPdf(f) /\ lower(f) \in LowerNames(outp)}]
    /\ ready' = [ready EXCEPT ![p] = {}]
    /\ tosubmit' = [tosubmit EXCEPT ![p] = {}]
    /\ job' = [job EXCEPT ![p] = NoJobs]
    /\ attempts' = [attempts EXCEPT ![p] = NoFiles]
    /\ counts' = [counts EXCEPT ![p] = <<0, 0>>]
    /\ claimCount' = [claimCount EXCEPT ![p] = NoFiles]
    /\ submitCount' = [submitCount EXCEPT ![p] = NoFiles]
    /\ pc' = [pc EXCEPT ![p] = "claim"]
    /\ UNCHANGED <<sideVars, folders, lease, settingsFile, exitKind, history,
                   envVars>>

\* A run_batch that passes no Output folder to the resolver: a file whose
\* output exists is pending again
RunBatchPending_no_output == get_pending_files(inp, {}, dup, err)

\* A run_batch that passes no Error folder to the resolver
RunBatchPending_no_error == get_pending_files(inp, outp, dup, {})

\* pending = get_pending_files(input, output, duplicate, error)
RunBatchPending == get_pending_files(inp, outp, dup, err)

\* A run_batch whose resolver takes the pending files out of Input while it
\* lists them
run_batch_taking(p) ==
    /\ pc[p] = "batch"
    /\ pending' = [pending EXCEPT ![p] = RunBatchPending]
    /\ todo' = [todo EXCEPT ![p] = RunBatchPending \cup DuplicateCandidates]
    /\ inp' = inp \ RunBatchPending
    /\ proc' = proc \cup RunBatchPending
    /\ ready' = [ready EXCEPT ![p] = {}]
    /\ tosubmit' = [tosubmit EXCEPT ![p] = {}]
    /\ job' = [job EXCEPT ![p] = NoJobs]
    /\ attempts' = [attempts EXCEPT ![p] = NoFiles]
    /\ counts' = [counts EXCEPT ![p] = <<0, 0>>]
    /\ claimCount' = [claimCount EXCEPT ![p] = NoFiles]
    /\ submitCount' = [submitCount EXCEPT ![p] = NoFiles]
    /\ pc' = [pc EXCEPT ![p] = "claim"]
    /\ UNCHANGED <<sideVars, outp, err, dup, lease, settingsFile, settings, exitKind,
                   history, envVars>>

\* run_batch: resolve the pending files and enter process_batch, whose
\* prepare_batch_for_processing starts from a listing of Input
run_batch(p) ==
    /\ pc[p] = "batch"
    /\ pending' = [pending EXCEPT ![p] = RunBatchPending]
    /\ todo' = [todo EXCEPT ![p] = RunBatchPending \cup DuplicateCandidates]
    /\ ready' = [ready EXCEPT ![p] = {}]
    /\ tosubmit' = [tosubmit EXCEPT ![p] = {}]
    /\ job' = [job EXCEPT ![p] = NoJobs]
    /\ attempts' = [attempts EXCEPT ![p] = NoFiles]
    /\ counts' = [counts EXCEPT ![p] = <<0, 0>>]
    /\ claimCount' = [claimCount EXCEPT ![p] = NoFiles]
    /\ submitCount' = [submitCount EXCEPT ![p] = NoFiles]
    /\ pc' = [pc EXCEPT ![p] = "claim"]
    /\ UNCHANGED <<sideVars, folders, lease, settingsFile, settings, exitKind,
                   history, envVars>>

\* A claim that is not one move: the file is first removed from Input and
\* written to Processing when the listing comes to it again
prepare_file_remove_first(p, f) ==
    /\ pc[p] = "claim"
    /\ f \in todo[p]
    /\ IF f \in inp
       THEN /\ inp' = inp \ {f}
            /\ UNCHANGED <<proc, outp, err, dup, todo, ready, claimCount>>
       ELSE /\ todo' = [todo EXCEPT ![p] = @ \ {f}]
            /\ proc' = proc \cup {f}
            /\ ready' = [ready EXCEPT ![p] = @ \cup {f}]
            /\ claimCount' = [claimCount EXCEPT ![p][f] = @ + 1]
            /\ UNCHANGED <<inp, outp, err, dup>>
    /\ UNCHANGED <<sideVars, lease, settingsFile, pc, settings, pending,
                   tosubmit, job, attempts, counts, exitKind, submitCount,
                   history, envVars>>

\* prepare_batch_for_processing, one file of the listing: a pending file is
\* moved from Input to Processing, a file whose output exists is moved to
\* Duplicate, a file that is no longer in Input is skipped
prepare_file(p, f) ==
    /\ pc[p] = "claim"
    /\ f \in todo[p]
    /\ todo' = [todo EXCEPT ![p] = @ \ {f}]
    /\ IF f \notin inp
       THEN UNCHANGED <<folders, ready, claimCount>>
       ELSE IF f \in pending[p]
       THEN /\ inp' = inp \ {f}
            /\ proc' = proc \cup {f}
            /\ ready' = [ready EXCEPT ![p] = @ \cup {f}]
            /\ claimCount' = [claimCount EXCEPT ![p][f] = @ + 1]
            /\ UNCHANGED <<outp, err, dup>>
       ELSE /\ inp' = inp \ {f}
            /\ dup' = dup \cup {f}
            /\ UNCHANGED <<proc, outp, err, ready, claimCount>>
    /\ UNCHANGED <<sideVars, lease, settingsFile, pc, settings, pending, tosubmit, job,
                   attempts, counts, exitKind, submitCount, history,
                   envVars>>

\* A process_batch that builds its pool before it looks at ready_files
process_batch_pool_first(p) ==
    /\ pc[p] = "claim"
    /\ todo[p] = {}
    /\ IF settings[p].workers <= 0
       THEN /\ pc' = [pc EXCEPT ![p] = "release"]
            /\ exitKind' = [exitKind EXCEPT ![p] = "exception"]
            /\ UNCHANGED tosubmit
       ELSE IF ready[p] = {}
       THEN /\ pc' = [pc EXCEPT ![p] = "release"]
            /\ exitKind' = [exitKind EXCEPT ![p] = "ok"]
            /\ UNCHANGED tosubmit
       ELSE /\ pc' = [pc EXCEPT ![p] = "dispatch"]
            /\ tosubmit' = [tosubmit EXCEPT ![p] = ready[p]]
            /\ UNCHANGED exitKind
    /\ UNCHANGED <<sideVars, folders, lease, settingsFile, settings, pending, todo,
                   ready, job, attempts, counts, claimCount, submitCount,
                   history, envVars>>

\* if not ready_files: return 0, 0
\* with ThreadPoolExecutor(max_workers=settings["workers"]): ValueError when
\* max_workers <= 0
process_batch_pool(p) ==
    /\ pc[p] = "claim"
    /\ todo[p] = {}
    /\ IF ready[p] = {}
       THEN /\ pc' = [pc EXCEPT ![p] = "release"]
            /\ exitKind' = [exitKind EXCEPT ![p] = "ok"]
            /\ UNCHANGED tosubmit
       ELSE IF settings[p].workers <= 0
       THEN /\ pc' = [pc EXCEPT ![p] = "release"]
            /\ exitKind' = [exitKind EXCEPT ![p] = "exception"]
            /\ UNCHANGED tosubmit
       ELSE /\ pc' = [pc EXCEPT ![p] = "dispatch"]
            /\ tosubmit' = [tosubmit EXCEPT ![p] = ready[p]]
            /\ UNCHANGED exitKind
    /\ UNCHANGED <<sideVars, folders, lease, settingsFile, settings, pending, todo,
                   ready, job, attempts, counts, claimCount, submitCount,
                   history, envVars>>

(***************************************************************************)
(* process_batch: the dispatch phase.                                      *)
(***************************************************************************)
\* A dispatch that does not advance over ready_files: a file can be
\* submitted again
submit_again(p, f) ==
    /\ pc[p] = "dispatch"
    /\ f \in tosubmit[p]
    /\ job' = [job EXCEPT ![p][f] = "queued"]
    /\ submitCount' = [submitCount EXCEPT ![p][f] = @ + 1]
    /\ UNCHANGED <<sideVars, folders, lease, settingsFile, pc, settings, pending, todo,
                   ready, tosubmit, attempts, counts, exitKind, claimCount,
                   history, envVars>>

\* executor.submit(process_single_pdf, file_path, ...) for file_path in
\* ready_files
submit(p, f) ==
    /\ pc[p] = "dispatch"
    /\ f \in tosubmit[p]
    /\ tosubmit' = [tosubmit EXCEPT ![p] = @ \ {f}]
    /\ job' = [job EXCEPT ![p][f] = "queued"]
    /\ submitCount' = [submitCount EXCEPT ![p][f] = @ + 1]
    /\ UNCHANGED <<sideVars, folders, lease, settingsFile, pc, settings, pending, todo,
                   ready, attempts, counts, exitKind, claimCount, history,
                   envVars>>

InFlight(p) == {f \in Names : job[p][f] \in {"running", "placed"}}

\* a pool thread takes a queued call: at most max_workers run at a time
pool_start(p, f) ==
    /\ pc[p] = "dispatch"
    /\ job[p][f] = "queued"
    /\ Cardinality(InFlight(p)) < settings[p].workers
    /\ job' = [job EXCEPT ![p][f] = "running"]
    /\ UNCHANGED <<sideVars, folders, lease, settingsFile, pc, settings, pending, todo,
                   ready, tosubmit, attempts, counts, exitKind, claimCount,
                   submitCount, history, envVars>>

\* process_single_pdf: one invocation of the OCR tool fails; the call retries
\* until max_retries is used up, then moves the file to Error and returns a
\* failure, which as_completed counts
invoke_fail(p, f) ==
    /\ pc[p] = "dispatch"
    /\ job[p][f] = "running"
    /\ invocations' = [invocations EXCEPT ![f] = @ + 1]
    /\ IF attempts[p][f] >= max_retries
       THEN /\ job' = [job EXCEPT ![p][f] = "failed"]
            /\ attempts' = [attempts EXCEPT ![p][f] = @ + 1]
            /\ proc' = proc \ {f}
            /\ err' = err \cup {f}
            /\ counts' = [counts EXCEPT ![p] = <<@[1], @[2] + 1>>]
       ELSE /\ attempts' = [attempts EXCEPT ![p][f] = @ + 1]
            /\ UNCHANGED <<job, proc, err, counts>>
    /\ partial' = partial \ {f}
    /\ UNCHANGED <<shutdown, inp, outp, dup, lease, settingsFile, pc, settings, pending,
                   todo, ready, tosubmit, exitKind, claimCount, submitCount,
                   takeovers, envVars>>

\* process_single_pdf: the invocation succeeds and the output is placed in
\* Output
invoke_ok(p, f) ==
    /\ pc[p] = "dispatch"
    /\ job[p][f] = "running"
    /\ invocations' = [invocations EXCEPT ![f] = @ + 1]
    /\ outp' = outp \cup {f}
    /\ job' = [job EXCEPT ![p][f] = "placed"]
    /\ partial' = partial \ {f}
    /\ UNCHANGED <<shutdown, inp, proc, err, dup, lease, settingsFile, pc, settings,
                   pending, todo, ready, tosubmit, attempts, counts, exitKind,
                   claimCount, submitCount, takeovers, envVars>>

\* A call that reads the flag from the settings file when the job is done,
\* not from the record loaded for the cycle
DeleteInputArg_file(p) == settingsFile.delete_input

\* A call that always asks for the source to be removed
DeleteInputArg_always(p) == TRUE

\* settings["delete_input"], the delete_input argument of process_single_pdf
DeleteInputArg(p) == settings[p].delete_input

\* A call that, after a success with delete_input set, empties Processing
\* instead of removing its own source
finish_ok_clears_processing(p, f) ==
    /\ pc[p] = "dispatch"
    /\ job[p][f] = "placed"
    /\ proc' = IF DeleteInputArg(p) THEN {} ELSE proc
    /\ job' = [job EXCEPT ![p][f] = "ok"]
    /\ counts' = [counts EXCEPT ![p] = <<@[1] + 1, @[2]>>]
    /\ UNCHANGED <<sideVars, inp, outp, err, dup, lease, settingsFile, pc,
                   settings, pending, todo, ready, tosubmit, attempts,
                   exitKind, claimCount, submitCount, history, envVars>>

\* An as_completed loop that counts a result reached after retries as a
\* failure
finish_ok_retried_fails(p, f) ==
    /\ pc[p] = "dispatch"
    /\ job[p][f] = "placed"
    /\ proc' = IF DeleteInputArg(p) THEN proc \ {f} ELSE proc
    /\ job' = [job EXCEPT ![p][f] = "ok"]
    /\ counts' = [counts EXCEPT ![p] = IF attempts[p][f] = 0
                                        THEN <<@[1] + 1, @[2]>>
                                        ELSE <<@[1], @[2] + 1>>]
    /\ UNCHANGED <<sideVars, inp, outp, err, dup, lease, settingsFile, pc,
                   settings, pending, todo, ready, tosubmit, attempts,
                   exitKind, claimCount, submitCount, history, envVars>>

\* process_single_pdf after a success: the source is removed when
\* delete_input is set; the call returns and as_completed counts the success
finish_ok(p, f) ==
    /\ pc[p] = "dispatch"
    /\ job[p][f] = "placed"
    /\ proc' = IF DeleteInputArg(p) THEN proc \ {f} ELSE proc
    /\ job' = [job EXCEPT ![p][f] = "ok"]
    /\ counts' = [counts EXCEPT ![p] = <<@[1] + 1, @[2]>>]
    /\ UNCHANGED <<sideVars, inp, outp, err, dup, lease, settingsFile, pc, settings,
                   pending, todo, ready, tosubmit, attempts, exitKind,
                   claimCount, submitCount, history, envVars>>

\* every future is collected: return success_count, fail_count
process_batch_return(p) ==
    /\ pc[p] = "dispatch"
    /\ tosubmit[p] = {}
    /\ \A f \in ready[p] : job[p][f] \in {"ok", "failed", "raised"}
    /\ pc' = [pc EXCEPT ![p] = "release"]
    /\ exitKind' = [exitKind EXCEPT ![p] =
                      IF counts[p][2] > 0 THEN "failures" ELSE "ok"]
    /\ UNCHANGED <<sideVars, folders, lease, settingsFile, settings, batchVars,
                   history, envVars>>

(***************************************************************************)
(* The environment: files arrive, the settings file is edited, a process   *)
(* dies and is started again, time passes.                                 *)
(***************************************************************************)
Arrive(f) ==
    /\ arrivals < MaxArrivals
    /\ f \notin inp \cup proc
    /\ inp' = inp \cup {f}
    /\ arrivals' = arrivals + 1
    /\ UNCHANGED <<sideVars, proc, outp, err, dup, lease, settingsFile, pc, settings,
                   batchVars, exitKind, history, crashes, changes>>

\* The settings are saved with one field edited
OneFieldEdited(s) ==
    Cardinality({k \in DOMAIN s : s[k] # settingsFile[k]}) = 1

ChangeSettings(s) ==
    /\ changes < MaxSettingsChanges
    /\ OneFieldEdited(s)
    /\ settingsFile' = s
    /\ changes' = changes + 1
    /\ UNCHANGED <<sideVars, folders, lease, pc, settings, batchVars, exitKind,
                   history, arrivals, crashes>>

\* The process is killed: its memory is gone, the folders and the lease
\* files stay as they are
Crash(p) ==
    /\ crashes < MaxCrashes
    /\ pc[p] \notin {"absent", "dead"}
    /\ crashes' = crashes + 1
    /\ pc' = [pc EXCEPT ![p] = "dead"]
    /\ lease' = [l \in Locks |->
                   IF Holds(p, l) THEN [lease[l] EXCEPT !.dead = TRUE]
                   ELSE lease[l]]
    /\ pending' = [pending EXCEPT ![p] = {}]
    /\ todo' = [todo EXCEPT ![p] = {}]
    /\ ready' = [ready EXCEPT ![p] = {}]
    /\ tosubmit' = [tosubmit EXCEPT ![p] = {}]
    /\ job' = [job EXCEPT ![p] = NoJobs]
    /\ attempts' = [attempts EXCEPT ![p] = NoFiles]
    /\ counts' = [counts EXCEPT ![p] = <<0, 0>>]
    /\ claimCount' = [claimCount EXCEPT ![p] = NoFiles]
    /\ submitCount' = [submitCount EXCEPT ![p] = NoFiles]
    /\ exitKind' = [exitKind EXCEPT ![p] = "none"]
    /\ settings' = [settings EXCEPT ![p] = NoSettings]
    /\ shutdown' = [shutdown EXCEPT ![p] = FALSE]
    /\ UNCHANGED <<partial, folders, settingsFile, history, arrivals, changes>>

\* Task Scheduler starts the process again
Restart(p) ==
    /\ pc[p] = "dead"
    /\ pc' = [pc EXCEPT ![p] = "idle"]
    /\ UNCHANGED <<sideVars, folders, lease, settingsFile, settings, batchVars,
                   exitKind, history, envVars>>

\* The timestamp of a held lease becomes older than the threshold
Tick(l) ==
    /\ lease[l].held
    /\ ~lease[l].stale
    /\ lease' = [lease EXCEPT ![l].stale = TRUE]
    /\ UNCHANGED <<sideVars, folders, settingsFile, pc, settings, batchVars, exitKind,
                   history, envVars>>

(***************************************************************************)
(* Shutdown, exceptions in a cycle, and the OCR tool writing its output.   *)
(***************************************************************************)
\* signal_handler: SIGTERM, SIGINT or SIGBREAK sets _shutdown_requested
signal_handler(p) ==
    /\ pc[p] \notin {"absent", "dead", "exited"}
    /\ ~shutdown[p]
    /\ shutdown' = [shutdown EXCEPT ![p] = TRUE]
    /\ UNCHANGED <<folders, lease, settingsFile, pc, settings, batchVars,
                   exitKind, history, envVars, partial>>

\* An exit whose cleanup frees the lease whoever holds it
main_exit_unlink(p) ==
    /\ pc[p] = "idle"
    /\ shutdown[p]
    /\ pc' = [pc EXCEPT ![p] = "exited"]
    /\ lease' = [lease EXCEPT ![OwnLock(p)] = FreeLease]
    /\ UNCHANGED <<folders, settingsFile, settings, batchVars, exitKind,
                   history, envVars, sideVars>>

\* while not _shutdown_requested fails: main returns and the atexit cleanup
\* calls WORKER_LOCK.release()
main_exit(p) ==
    /\ pc[p] = "idle"
    /\ shutdown[p]
    /\ pc' = [pc EXCEPT ![p] = "exited"]
    /\ lease' = Released(OwnLock(p), p)
    /\ UNCHANGED <<folders, settingsFile, settings, batchVars, exitKind,
                   history, envVars, sideVars>>

\* The loop without its except Exception branch: the exception leaves main
raise_in_cycle_uncaught(p) ==
    /\ pc[p] \in {"idle", "probe", "acquire", "batch", "claim"}
    /\ exitKind' = [exitKind EXCEPT ![p] = "exception"]
    /\ pc' = [pc EXCEPT ![p] = "exited"]
    /\ settings' = [settings EXCEPT ![p] = NoSettings]
    /\ UNCHANGED <<folders, lease, settingsFile, batchVars, history, envVars,
                   sideVars>>

\* A call of the cycle raises (load_settings' caller, the folder listing, the
\* lease probe, the batch): before the lease is taken the except branch of
\* the loop is next, which logs and sleeps; inside the try the finally is
\* next
raise_in_cycle(p) ==
    /\ pc[p] \in {"idle", "probe", "acquire", "batch", "claim"}
    /\ exitKind' = [exitKind EXCEPT ![p] = "exception"]
    /\ IF pc[p] \in {"idle", "probe", "acquire"}
       THEN /\ pc' = [pc EXCEPT ![p] = "idle"]
            /\ settings' = [settings EXCEPT ![p] = NoSettings]
       ELSE /\ pc' = [pc EXCEPT ![p] = "release"]
            /\ UNCHANGED settings
    /\ UNCHANGED <<folders, lease, settingsFile, batchVars, history, envVars,
                   sideVars>>

\* An adapter that lets the OCR tool write at its final path in Output
tool_write_in_place(p, f) ==
    /\ pc[p] = "dispatch"
    /\ job[p][f] = "running"
    /\ f \notin partial
    /\ partial' = partial \cup {f}
    /\ outp' = outp \cup {f}
    /\ UNCHANGED <<inp, proc, err, dup, lease, settingsFile, pc, settings,
                   batchVars, exitKind, history, envVars, shutdown>>

\* settings = load_settings(), first definition, on the file as it is
main_load(p) ==
    /\ pc[p] = "idle"
    /\ settings' = [settings EXCEPT
                       ![p] = load_settings_of(defaults, settingsFile)]
    /\ pc' = [pc EXCEPT ![p] = "loaded"]
    /\ UNCHANGED <<folders, lease, settingsFile, batchVars, exitKind, history,
                   envVars, sideVars>>

\* settings = load_settings(), second definition, on the file as it is
main_load_second(p) ==
    /\ pc[p] = "idle"
    /\ settings' = [settings EXCEPT
                       ![p] = load_settings_of(defaults_second, settingsFile)]
    /\ pc' = [pc EXCEPT ![p] = "loaded"]
    /\ UNCHANGED <<folders, lease, settingsFile, batchVars, exitKind, history,
                   envVars, sideVars>>

\* A prepare_batch_for_processing that lets the error of one move escape:
\* process_batch raises and the batch is over
prepare_fail_aborts(p, f) ==
    /\ pc[p] = "claim"
    /\ f \in todo[p]
    /\ f \in inp
    /\ pc' = [pc EXCEPT ![p] = "release"]
    /\ exitKind' = [exitKind EXCEPT ![p] = "exception"]
    /\ UNCHANGED <<folders, lease, settingsFile, settings, batchVars, history,
                   envVars, sideVars>>

\* prepare_batch_for_processing, one file of the listing whose move fails
\* (permission denied, the file is open elsewhere): the error is logged, the
\* file stays where it is and the listing goes on
prepare_fail(p, f) ==
    /\ pc[p] = "claim"
    /\ f \in todo[p]
    /\ f \in inp
    /\ todo' = [todo EXCEPT ![p] = @ \ {f}]
    /\ UNCHANGED <<folders, lease, settingsFile, pc, settings, pending, ready,
                   tosubmit, job, attempts, counts, claimCount, submitCount,
                   exitKind, history, envVars, sideVars>>

\* A file of Input is taken away by someone else
Vanish(f) ==
    /\ f \in inp
    /\ inp' = inp \ {f}
    /\ UNCHANGED <<proc, outp, err, dup, lease, settingsFile, pc, settings,
                   batchVars, exitKind, history, envVars, sideVars>>

\* An as_completed loop whose except branch only logs
invoke_raise_dropped(p, f) ==
    /\ pc[p] = "dispatch"
    /\ job[p][f] = "running"
    /\ job' = [job EXCEPT ![p][f] = "raised"]
    /\ partial' = partial \ {f}
    /\ UNCHANGED <<folders, lease, settingsFile, pc, settings, pending, todo,
                   ready, tosubmit, attempts, counts, claimCount, submitCount,
                   exitKind, history, envVars, shutdown>>

\* The call of process_single_pdf for f raises: future.result() raises in
\* the as_completed loop, whose except branch counts one failure; the file
\* is where the call left it, in Processing
invoke_raise(p, f) ==
    /\ pc[p] = "dispatch"
    /\ job[p][f] = "running"
    /\ job' = [job EXCEPT ![p][f] = "raised"]
    /\ counts' = [counts EXCEPT ![p] = <<@[1], @[2] + 1>>]
    /\ partial' = partial \ {f}
    /\ UNCHANGED <<folders, lease, settingsFile, pc, settings, pending, todo,
                   ready, tosubmit, attempts, claimCount, submitCount,
                   exitKind, history, envVars, shutdown>>

\* Another front-end q starts processing: it finds the opposing lease free
\* and takes its own
other_acquire(q) ==
    /\ pc[q] = "absent"
    /\ ~is_locked(OtherLock(q))
    /\ CanAcquire(OwnLock(q))
    /\ lease' = Acquired(OwnLock(q), q)
    /\ pc' = [pc EXCEPT ![q] = "holding"]
    /\ UNCHANGED <<folders, settingsFile, settings, batchVars, exitKind,
                   history, envVars, sideVars>>

\* The front-end q is done, releases its lease and stops contending
other_release(q) ==
    /\ pc[q] = "holding"
    /\ lease' = Released(OwnLock(q), q)
    /\ pc' = [pc EXCEPT ![q] = "gone"]
    /\ UNCHANGED <<folders, settingsFile, settings, batchVars, exitKind,
                   history, envVars, sideVars>>

\* The OCR tool, running for f, has written part of its output artifact, at
\* a path that is not in Output
tool_write(p, f) ==
    /\ pc[p] = "dispatch"
    /\ job[p][f] = "running"
    /\ f \notin partial
    /\ partial' = partial \cup {f}
    /\ UNCHANGED <<folders, lease, settingsFile, pc, settings, batchVars,
                   exitKind, history, envVars, shutdown>>

(***************************************************************************)
(* Specifications.                                                         *)
(***************************************************************************)
Cycle(p) ==
    \/ main_check(p)
    \/ main_probe(p)
    \/ main_acquire(p)
    \/ run_batch(p)
    \/ \E f \in Names : prepare_file(p, f)
    \/ process_batch_pool(p)
    \/ \E f \in Names : submit(p, f)
    \/ \E f \in Names : pool_start(p, f)
    \/ \E f \in Names : invoke_fail(p, f)
    \/ \E f \in Names : invoke_ok(p, f)
    \/ \E f \in Names : finish_ok(p, f)
    \/ process_batch_return(p)
    \/ main_release(p)

\* The background worker alone, while files arrive and the settings file is
\* edited
Init == InitWith({"w1"}, SettingsValues)

Next ==
    \/ \E p \in Procs : Cycle(p)
    \/ \E f \in Names : Arrive(f)
    \/ \E s \in SettingsValues : ChangeSettings(s)

Spec == Init /\ [][Next]_vars

\* The background worker and the interactive app on one folder set
InitApp == InitWith({"w1", "app"}, SettingsValues)

NextApp == (\E p \in Procs : Cycle(p)) \/ (\E f \in Names : Arrive(f))

SpecApp == InitApp /\ [][NextApp]_vars

\* Two instances of the background worker on one folder set: either may die
\* holding the lease, and be started again
InitWorkers == InitWith(Workers, SettingsValues)

NextWorkers ==
    \/ \E p \in Procs : Cycle(p)
    \/ \E f \in Names : Arrive(f)
    \/ \E p \in Procs : Crash(p)
    \/ \E p \in Procs : Restart(p)
    \/ \E l \in Locks : Tick(l)

SpecWorkers == InitWorkers /\ [][NextWorkers]_vars

\* The background worker with auto_start enabled and a usable pool size, under
\* fair scheduling: the loop keeps polling and the pool keeps running, a dead
\* worker is started again, time passes
LiveSettings == {s \in SettingsValues : s.auto_start /\ s.workers >= 1}

InitLive == InitWith({"w1"}, LiveSettings)

NextLive ==
    \/ Cycle("w1")
    \/ \E f \in Names : Arrive(f)
    \/ Crash("w1")
    \/ Restart("w1")
    \/ Tick(WORKER_LOCK)

SpecLive ==
    /\ InitLive
    /\ [][NextLive]_vars
    /\ WF_vars(Cycle("w1"))
    /\ WF_vars(Restart("w1"))
    /\ WF_vars(Tick(WORKER_LOCK))

\* The background worker and the signals that ask it to shut down
InitShutdown == InitWith({"w1"}, SettingsValues)

NextShutdown ==
    \/ Cycle("w1")
    \/ \E f \in Names : Arrive(f)
    \/ signal_handler("w1")
    \/ main_exit("w1")

SpecShutdown == InitShutdown /\ [][NextShutdown]_vars

\* The background worker when any call of a cycle may raise, under fair
\* scheduling of the loop
InitFaults == InitWith({"w1"}, SettingsValues)

NextFaults ==
    \/ Cycle("w1")
    \/ \E f \in Names : Arrive(f)
    \/ raise_in_cycle("w1")

SpecFaults == InitFaults /\ [][NextFaults]_vars /\ WF_vars(Cycle("w1"))

\* The background worker as the second definition of main runs it, while
\* files arrive and the settings file is edited
CycleSecond(p) ==
    \/ main_check_second(p)
    \/ main_probe(p)
    \/ main_acquire(p)
    \/ run_batch(p)
    \/ \E f \in Names : prepare_file(p, f)
    \/ process_batch_pool(p)
    \/ \E f \in Names : submit(p, f)
    \/ \E f \in Names : pool_start(p, f)
    \/ \E f \in Names : invoke_fail(p, f)
    \/ \E f \in Names : invoke_ok(p, f)
    \/ \E f \in Names : finish_ok(p, f)
    \/ process_batch_return(p)
    \/ main_release(p)

InitSecond == InitWith({"w1"}, SettingsValues)

NextSecond ==
    \/ CycleSecond("w1")
    \/ \E f \in Names : Arrive(f)
    \/ \E s \in SettingsValues : ChangeSettings(s)

SpecSecond == InitSecond /\ [][NextSecond]_vars

\* The background worker with the OCR tool's writes made visible
InitAdapter == InitWith({"w1"}, SettingsValues)

NextAdapter ==
    \/ Cycle("w1")
    \/ \E f \in Names : Arrive(f)
    \/ \E f \in Names : tool_write("w1", f)

SpecAdapter == InitAdapter /\ [][NextAdapter]_vars

\* load_settings, either definition, on every content of the settings file
InitSettings == InitWith({"w1"}, FileContents)

NextSettings == main_load("w1") \/ main_load_second("w1")

SpecSettings == InitSettings /\ [][NextSettings]_vars

\* The background worker under settings records that carry the language and
\* deskew fields too, while the settings file is edited
SnapshotSettings ==
    [auto_start : {TRUE}, workers : 1..MaxWorkers, delete_input : {TRUE},
     language : Languages, deskew : BOOLEAN]

InitSnapshot == InitWith({"w1"}, SnapshotSettings)

NextSnapshot ==
    \/ Cycle("w1")
    \/ \E f \in Names : Arrive(f)
    \/ \E s \in SnapshotSettings : ChangeSettings(s)

SpecSnapshot == InitSnapshot /\ [][NextSnapshot]_vars

\* The background worker with a usable pool size, when the move of a file
\* into Processing can fail and files can vanish from Input
InitClaimFaults == InitWith({"w1"}, LiveSettings)

NextClaimFaults ==
    \/ Cycle("w1")
    \/ \E f \in Names : Arrive(f)
    \/ \E f \in Names : prepare_fail("w1", f)
    \/ \E f \in Names : Vanish(f)

SpecClaimFaults == InitClaimFaults /\ [][NextClaimFaults]_vars

\* The background worker with a usable pool size, when a call of
\* process_single_pdf may raise
InitCalls == InitWith({"w1"}, LiveSettings)

NextCalls ==
    \/ Cycle("w1")
    \/ \E f \in Names : Arrive(f)
    \/ \E f \in Names : invoke_raise("w1", f)

SpecCalls == InitCalls /\ [][NextCalls]_vars

\* The background worker next to the interactive app and a second worker
\* instance, each of which takes its lease for a while and releases it; the
\* worker's loop is scheduled fairly and a held lease is released in the end
Others == {"app", "w2"}

InitConflict == InitWith({"w1"}, LiveSettings)

NextConflict ==
    \/ Cycle("w1")
    \/ \E f \in Names : Arrive(f)
    \/ \E q \in Others : other_acquire(q)
    \/ \E q \in Others : other_release(q)

SpecConflict ==
    /\ InitConflict
    /\ [][NextConflict]_vars
    /\ WF_vars(Cycle("w1"))
    /\ \A q \in Others : WF_vars(other_release(q))

\* The resolver on every combination of folder contents: the worker holds its
\* lease and is about to call run_batch
InitResolver ==
    /\ inp \in SUBSET ResolverNames
    /\ outp \in SUBSET ResolverNames
    /\ dup \in SUBSET ResolverNames
    /\ err \in SUBSET ResolverNames
    /\ proc = {}
    /\ lease = [l \in Locks |->
                  IF l = WORKER_LOCK
                  THEN [held |-> TRUE, owner |-> "w1", dead |-> FALSE,
                        stale |-> FALSE]
                  ELSE FreeLease]
    /\ settingsFile = [auto_start |-> TRUE, workers |-> 1,
                       delete_input |-> TRUE]
    /\ pc = [p \in Procs |-> IF p = "w1" THEN "batch" ELSE "absent"]
    /\ settings = [p \in Procs |-> settingsFile]
    /\ pending = [p \in Procs |-> {}]
    /\ todo = [p \in Procs |-> {}]
    /\ ready = [p \in Procs |-> {}]
    /\ tosubmit = [p \in Procs |-> {}]
    /\ job = [p \in Procs |-> NoJobs]
    /\ attempts = [p \in Procs |-> NoFiles]
    /\ counts = [p \in Procs |-> <<0, 0>>]
    /\ exitKind = [p \in Procs |-> "none"]
    /\ claimCount = [p \in Procs |-> NoFiles]
    /\ submitCount = [p \in Procs |-> NoFiles]
    /\ invocations = NoFiles
    /\ takeovers = 0
    /\ arrivals = 0 /\ crashes = 0 /\ changes = 0
    /\ shutdown = [p \in Procs |-> FALSE]
    /\ partial = {}

NextResolver == run_batch("w1")

SpecResolver == InitResolver /\ [][NextResolver]_vars

\* Two instances of the background worker, each of which may be asked to
\* shut down and then runs its cleanup on exit
InitExit == InitWith(Workers, LiveSettings)

NextExit ==
    \/ \E p \in Workers : Cycle(p)
    \/ \E f \in Names : Arrive(f)
    \/ \E p \in Workers : signal_handler(p)
    \/ \E p \in Workers : main_exit(p)

SpecExit == InitExit /\ [][NextExit]_vars

(***************************************************************************)
(* Claims.                                                                 *)
(***************************************************************************)
\* A front-end is in Running-Batch from the acquisition of its own lease to
\* its release
RunningBatch(p) == pc[p] \in {"batch", "claim", "dispatch", "release"}

\* C1: the background worker and the interactive app are never both in
\* Running-Batch, whatever the interleaving of their probe-then-acquire steps.
C1_FrontEndsExclusive == ~(RunningBatch("w1") /\ RunningBatch("app"))

\* C2: of two worker instances contending for WORKER_LOCK at most one is in
\* a batch at a time, and whoever is in a batch holds the lease; the instance
\* whose acquire() returned false is back to sleeping, its cycle has claimed
\* and dispatched nothing.
C2_LeaseExclusive ==
    /\ ~(RunningBatch("w1") /\ RunningBatch("w2"))
    /\ \A p \in Workers :
        /\ RunningBatch(p) => Holds(p, WORKER_LOCK)
        /\ ~RunningBatch(p) => (ready[p] = {} /\ claimCount[p] = NoFiles)
        /\ exitKind[p] = "refused" => pc[p] \in {"idle", "dead"}

\* One instance runs its batch while the other has just been refused.
C2_Witness ==
    /\ pc["w1"] = "dispatch"
    /\ claimCount["w1"][FA] = 1
    /\ exitKind["w2"] = "refused"
    /\ pc["w2"] = "idle"

C4_EveryJobTerminates ==
    \A f \in Names : (f \in inp) ~> (f \in outp \cup err \cup dup)

\* The partitions a file name is present in
PartitionsOf(f) ==
    {i \in 1..5 : f \in folders[i]}

\* No adapter call is between placing the output and removing the source
NoMoveInProgress(f) == \A p \in Procs : job[p][f] # "placed"

C6_NoDoubleClaim ==
    \A p \in Procs :
        /\ \A f \in Names :
            /\ claimCount[p][f] <= 1
            /\ submitCount[p][f] <= 1
            /\ submitCount[p][f] <= claimCount[p][f]
            /\ claimCount[p][f] = 1 => f \in pending[p]
        /\ (pc[p] = "release" /\ exitKind[p] \in {"ok", "failures"}) =>
             \A f \in pending[p] :
                claimCount[p][f] = 1 /\ submitCount[p][f] = 1

\* A batch of two pending files returns from a pool of one worker.
C6_Witness ==
    /\ pc["w1"] = "release"
    /\ exitKind["w1"] = "ok"
    /\ pending["w1"] = {FA, FB}
    /\ settings["w1"].workers = 1

\* C7: a worker that is not inside a processing cycle does not hold
\* WORKER_LOCK: back in Idle after a batch that returned normally, reported
\* failures or raised, the lease is released.
C7_LeaseReleased ==
    \A p \in Workers : pc[p] = "idle" => ~Holds(p, WORKER_LOCK)

\* The worker is back in Idle after a batch that raised an exception.
C7_Witness ==
    /\ pc["w1"] = "idle"
    /\ exitKind["w1"] = "exception"
    /\ ~lease[WORKER_LOCK].held

\* The lease whose holder died without releasing it
DeadHeld(l) == lease[l].held /\ lease[l].dead

\* C8: when the holder of WORKER_LOCK died without releasing it, a file that
\* is pending is eventually claimed by a batch: the lease is taken over once
\* it is stale.
C8_StaleLeaseReclaimed ==
    \A f \in Names :
        (DeadHeld(WORKER_LOCK) /\ f \in RunBatchPending) ~> (f \notin inp)

\* The restarted worker has taken over the abandoned lease and claimed a file.
C8_Witness ==
    /\ takeovers = 1
    /\ Holds("w1", WORKER_LOCK)
    /\ pc["w1"] = "dispatch"
    /\ ready["w1"] # {}

\* C9: a file left in Processing by a worker that died mid-batch eventually
\* reaches Output or Error.
C9_OrphanRecovered ==
    \A f \in Names :
        (f \in proc /\ pc["w1"] = "dead") ~> (f \in outp \cup err)

\* Case-insensitive comparison of two names, character by character
SameNameIgnoringCase(f, g) ==
    /\ Len(f) = Len(g)
    /\ \A i \in 1..Len(f) :
        \/ f[i] = g[i]
        \/ {f[i], g[i]} \in {{"a", "A"}, {"b", "B"}, {"p", "P"}, {"d", "D"},
                             {"f", "F"}}

\* The name ends in .pdf, in any case
HasPdfExtension(f) ==
    /\ Len(f) >= 4
    /\ f[Len(f) - 3] = "."
    /\ f[Len(f) - 2] \in {"p", "P"}
    /\ f[Len(f) - 1] \in {"d", "D"}
    /\ f[Len(f)] \in {"f", "F"}

\* C10: the resolver returns exactly the .pdf names of Input that match,
\* ignoring case, no name of Output, Duplicate or Error.
C10_ResolverContract ==
    pc["w1"] = "claim" =>
        pending["w1"] =
            {f \in inp : /\ HasPdfExtension(f)
                         /\ \A g \in outp \cup dup \cup err :
                                ~SameNameIgnoringCase(f, g)}

\* Input {a.pdf, b.pdf} with Output {b.pdf} yields {a.pdf}.
C10_Witness ==
    /\ pc["w1"] = "claim"
    /\ inp = {FA, FB}
    /\ outp = {FB}
    /\ dup = {}
    /\ err = {}
    /\ pending["w1"] = {FA}

\* The lower-cased names the resolver treats as processed
ProcessedNames == LowerNames(outp) \cup LowerNames(dup) \cup LowerNames(err)

\* The step of run_batch that calls the resolver
ResolverCalled(p) == pc[p] = "batch" /\ pc'[p] = "claim"

ZeroClaimReturn(p) == pc[p] = "release" /\ ready[p] = {}

C13_ShutdownDrains ==
    [][\A p \in Workers :
          /\ (~shutdown[p] /\ shutdown'[p]) =>
                (pc' = pc /\ folders' = folders /\ job' = job)
          /\ (shutdown[p] /\ pc'[p] = "batch") => pc[p] = "batch"
          /\ pc[p] = "exited" => pc'[p] = "exited"
          /\ pc'[p] = "exited" => ~Holds(p, WORKER_LOCK)']_vars

\* C14: an exception raised in a cycle of the loop is caught: the worker
\* stays in its loop, and after the sleep a later cycle is started.
C14_LoopSurvivesException ==
    (exitKind["w1"] = "exception") ~> (exitKind["w1"] = "none")

\* A batch raised while a.pdf was claimed: the finally has released
\* WORKER_LOCK, the except branch has run, and the loop sleeps with a.pdf
\* waiting in Processing.
C14_Witness ==
    /\ exitKind["w1"] = "exception"
    /\ pc["w1"] = "idle"
    /\ FA \in proc
    /\ ~lease[WORKER_LOCK].held

\* C15: the worker leaves Idle for a cycle only with auto_start enabled in
\* the settings it has just loaded and a .pdf waiting in Input or Processing,
\* goes on to acquire only after observing the other front-end's lease not
\* held, and enters the batch only holding its own lease; with auto_start
\* disabled it holds no lease and has claimed no file.
C15_BatchOnlyWhenEnabled ==
    [][\A p \in Workers :
          /\ (pc[p] = "idle" /\ pc'[p] = "probe") =>
                (load_settings.auto_start /\ has_work
                    /\ settings'[p] = load_settings)
          /\ (pc[p] = "probe" /\ pc'[p] = "acquire") =>
                ~is_locked(OtherLock(p))
          /\ (pc[p] = "acquire" /\ pc'[p] = "batch") =>
                (CanAcquire(WORKER_LOCK) /\ Holds(p, WORKER_LOCK)')
          /\ RunningBatch(p)' => settings'[p].auto_start
          /\ ~settings'[p].auto_start =>
                (~Holds(p, WORKER_LOCK)' /\ claimCount'[p] = NoFiles)]_vars

\* C16: a .pdf of Input whose name is already in Output is not pending when
\* the batch resolves its files, it is listed for the claim phase and the
\* step that handles it moves it to Duplicate and nothing else: it is not
\* claimed, not submitted, and the OCR tool is not invoked; the tool is
\* invoked only for files the batch has claimed as pending.
C16_DuplicateNeverInvoked ==
    [][\A p \in Workers, f \in Names :
          /\ (ResolverCalled(p) /\ f \in DuplicateCandidates) =>
                (f \notin pending'[p] /\ f \in todo'[p])
          /\ (f \in dup' /\ f \notin dup) =>
                /\ f \in inp /\ f \notin inp'
                /\ lower(f) \in LowerNames(outp)
                /\ \A q \in Workers : f \notin pending[q] /\ f \notin ready'[q]
                /\ invocations' = invocations
                /\ job' = job /\ claimCount' = claimCount
                /\ submitCount' = submitCount
                /\ proc' = proc /\ outp' = outp /\ err' = err
          /\ (pc[p] = "dispatch" /\ invocations'[f] # invocations[f]) =>
                (f \in ready[p] /\ f \in pending[p])]_vars

\* a.pdf was processed once and arrived again: the second a.pdf is in
\* Duplicate, and the tool has run once, for the first.
C16_Witness ==
    /\ FA \in dup /\ FA \in outp /\ FA \notin inp
    /\ invocations[FA] = 1
    /\ pc["w1"] = "idle"

\* C17: no artifact in Output is a partly written one; Output gains a file
\* only by the placement step of a successful invocation; and a partly
\* written artifact exists only while the adapter is running for its job:
\* none is left when an attempt has failed or the adapter has returned.
C17_OutputNeverPartial ==
    [][/\ \A f \in partial' :
            f \notin outp' /\ job'["w1"][f] = "running"
       /\ \A f \in outp' \ outp :
            /\ job["w1"][f] = "running" /\ job'["w1"][f] = "placed"
            /\ invocations'[f] = invocations[f] + 1
            /\ f \notin partial'
       /\ \A f \in Names :
            attempts'["w1"][f] > attempts["w1"][f] => f \notin partial']_vars

\* a.pdf was placed in Output after one failed attempt and nothing partial
\* of it is left, while the tool is writing the output of b.pdf.
C17_Witness ==
    /\ job["w1"][FA] = "placed" /\ FA \in outp
    /\ attempts["w1"][FA] = 1
    /\ FA \notin partial
    /\ job["w1"][FB] = "running" /\ FB \in partial

\* C18: a worker in a batch runs under a workers value that is a positive
\* integer no larger than MAX_WORKERS, and has at most that many OCR
\* invocations in flight.
C18_PoolBounded ==
    \A p \in Workers :
        RunningBatch(p) =>
            /\ settings[p].workers >= 1
            /\ settings[p].workers <= MAX_WORKERS
            /\ Cardinality(InFlight(p)) <= settings[p].workers

\* The configured default of each of the five fields
DefaultRecord == Merge(defaults, defaults_second)

\* C19: whatever the settings file holds, load_settings returns a record
\* with all five fields, in which a field the file does not give has its
\* default value and a field the file gives has the file's value.
C19_LoadYieldsFullRecord ==
    \A p \in Workers :
        pc[p] = "loaded" =>
            /\ SettingsFields \subseteq DOMAIN settings[p]
            /\ \A k \in SettingsFields :
                  IF settingsFile.kind = "object"
                        /\ k \in DOMAIN settingsFile.data
                  THEN settings[p][k] = settingsFile.data[k]
                  ELSE settings[p][k] = DefaultRecord[k]

\* The jobs of p's batch that have returned with the given result
Returned(p, result) == {f \in Names : job[p][f] = result}

LiveHeld(l) == lease[l].held /\ ~lease[l].dead

\* C21: a step in which a worker calls acquire() on WORKER_LOCK while a
\* running process holds it leaves the lease with its holder, whatever the
\* age of the lease, and sends the caller back to sleep in that same step;
\* the lease changes owner only when it was free or its holder was dead.
C21_LiveLeaseNeverTaken ==
    [][\A p \in Workers :
          /\ (pc[p] = "acquire" /\ pc'[p] # "acquire" /\ pc'[p] # "dead"
                 /\ LiveHeld(WORKER_LOCK)) =>
                /\ lease' = lease
                /\ pc'[p] = "idle" /\ exitKind'[p] = "refused"
          /\ (Holds(p, WORKER_LOCK)' /\ ~Holds(p, WORKER_LOCK)) =>
                ~LiveHeld(WORKER_LOCK)]_vars

\* The first worker is in its batch and its lease has grown older than the
\* threshold; the second worker has called acquire() and was refused.
C21_Witness ==
    /\ pc["w1"] = "dispatch"
    /\ Holds("w1", WORKER_LOCK)
    /\ lease[WORKER_LOCK].stale
    /\ exitKind["w2"] = "refused"
    /\ pc["w2"] = "idle"

\* The source of f is removed in this step: it leaves Processing and is not
\* moved to Error
SourceDeleted(f) == f \in proc /\ f \notin proc' /\ err' = err

BatchArgs(p) ==
    [workers |-> settings[p].workers, language |-> settings[p].language,
     deskew |-> settings[p].deskew]

\* C23: the record a cycle works with is the settings file as it was when
\* the cycle loaded it; from then until the cycle ends no step changes the
\* workers, language and deskew values the batch uses, whatever is written to
\* the settings file meanwhile, and the pool of the batch is bounded by that
\* workers value; the next cycle loads the file as it is then.
C23_SettingsSnapshot ==
    [][\A p \in Workers :
          /\ (pc[p] = "idle" /\ pc'[p] = "probe") =>
                (settings'[p] = settingsFile /\ settingsFile' = settingsFile)
          /\ (pc[p] \notin {"idle", "dead", "absent"}
                 /\ pc'[p] \notin {"idle", "dead", "absent"}) =>
                BatchArgs(p)' = BatchArgs(p)
          /\ RunningBatch(p)' =>
                Cardinality(InFlight(p))' <= settings'[p].workers]_vars

\* The tool runs for a.pdf under the record loaded at the start of the cycle
\* while the settings file has since been saved with another language and
\* another deskew value.
C23_Witness ==
    /\ pc["w1"] = "dispatch"
    /\ job["w1"][FA] = "running"
    /\ settings["w1"].language # settingsFile.language
    /\ settings["w1"].deskew # settingsFile.deskew
    /\ changes = 2

\* The claim phase of p's batch has gone past the pending file f without
\* claiming it
Skipped(p, f) ==
    /\ pc[p] \in {"claim", "dispatch", "release"}
    /\ f \in pending[p] /\ f \notin todo[p]
    /\ claimCount[p][f] = 0

\* C24: a pending file whose claim failed is not submitted or invoked in
\* this cycle and the batch does not end in an exception; when the batch
\* returns every other pending file has been claimed once, submitted once and
\* has its result; and the resolver of the next cycle offers again every
\* .pdf that is still in Input and has no counterpart in Output, Duplicate
\* or Error.
C24_ClaimFailureSkipsFile ==
    [][\A p \in Workers :
          /\ exitKind'[p] # "exception"
          /\ \A f \in Names :
                Skipped(p, f)' =>
                    /\ f \notin ready'[p]
                    /\ submitCount'[p][f] = 0
                    /\ job'[p][f] = "none"
          /\ pc'[p] = "release" =>
                \A f \in pending'[p] :
                    \/ Skipped(p, f)'
                    \/ /\ claimCount'[p][f] = 1 /\ submitCount'[p][f] = 1
                       /\ job'[p][f] \in {"ok", "failed"}
          /\ ResolverCalled(p) =>
                \A f \in inp :
                    (IsPdf(f) /\ lower(f) \notin ProcessedNames) =>
                        f \in pending'[p]]_vars

\* The move of a.pdf failed and a.pdf is still in Input; b.pdf of the same
\* batch was claimed and processed, and the batch has returned.
C24_Witness ==
    /\ pc["w1"] = "release"
    /\ exitKind["w1"] = "ok"
    /\ Skipped("w1", FA) /\ FA \in inp
    /\ job["w1"][FB] = "ok" /\ FB \in outp

\* The retries the job of f in p's batch has used: the invocations after its
\* first one
RetryCount(p, f) ==
    IF job[p][f] = "failed" THEN attempts[p][f] - 1 ELSE attempts[p][f]

Claimed(p) == Cardinality({f \in Names : claimCount[p][f] >= 1})

\* C26: at every moment the success count of a batch is the number of its
\* calls that returned a success and the failure count the number that
\* returned a failure or raised; when the batch returns the two add up to
\* the number of files claimed in the cycle; and every job counted as a
\* success is in Output.
C26_NoOutcomeDropped ==
    \A p \in Workers :
        /\ counts[p][1] = Cardinality(Returned(p, "ok"))
        /\ counts[p][2] = Cardinality(Returned(p, "failed"))
                              + Cardinality(Returned(p, "raised"))
        /\ \A f \in Returned(p, "ok") : f \in outp /\ claimCount[p][f] = 1
        /\ (pc[p] = "release" /\ exitKind[p] \in {"ok", "failures"}) =>
              /\ counts[p][1] + counts[p][2] = Claimed(p)
              /\ Claimed(p) = Cardinality(ready[p])

\* A batch of two claimed files has returned (1, 1): the call for a.pdf
\* raised and a.pdf is still in Processing, b.pdf is in Output.
C26_Witness ==
    /\ pc["w1"] = "release"
    /\ counts["w1"] = <<1, 1>>
    /\ job["w1"][FA] = "raised" /\ FA \in proc
    /\ job["w1"][FB] = "ok" /\ FB \in outp

\* The worker p has skipped a cycle over a lease
SkippedCycle(p) == exitKind[p] \in {"conflict", "refused"}

Present(f) == f \in inp \cup proc \cup outp \cup err \cup dup

\* The process p is killed in this step
Killed(p) == pc[p] \notin {"absent", "dead"} /\ pc'[p] = "dead"

\* C28: no step takes a file out of the five folders altogether: a file that
\* is in one of them before a step is in one of them after it; and the step
\* in which a process is killed, at whatever point of its cycle, leaves all
\* five folders as they are.
C28_CrashLosesNoJob ==
    [][/\ \A f \in Names : Present(f) => Present(f)'
       /\ \A p \in Workers : Killed(p) => folders' = folders]_vars

\* The worker was killed in its claim phase: a.pdf is already in Processing,
\* b.pdf still in Input.
C28_Witness ==
    /\ pc["w1"] = "dead"
    /\ crashes = 1
    /\ FA \in proc /\ FA \notin inp
    /\ FB \in inp
    /\ invocations = NoFiles

\* This step is a step of the adapter call that p's batch runs for f
CallStep(p, f) ==
    /\ pc[p] = "dispatch"
    /\ job[p][f] \in {"running", "placed"}
    /\ \/ job'[p][f] # job[p][f]
       \/ attempts'[p][f] # attempts[p][f]
       \/ invocations'[f] # invocations[f]

\* The folders f is in, its retry count, its state in p's batch and whether
\* a partly written output of it exists
JobFootprint(p, f) ==
    <<PartitionsOf(f), attempts[p][f], job[p][f], invocations[f],
      f \in partial>>

\* C29: a step of the adapter call for one job leaves every other job as it
\* is: the folders it is in, its retry count, its state and its files.
C29_CallTouchesOwnJobOnly ==
    [][\A p \in Workers : \A f \in Names :
          CallStep(p, f) =>
              \A g \in Names \ {f} : JobFootprint(p, g)' = JobFootprint(p, g)]_vars

\* Two calls run in parallel: the one for a.pdf has succeeded and removed
\* its source, while b.pdf, on its first retry, is still in Processing.
C29_Witness ==
    /\ job["w1"][FA] = "ok" /\ FA \in outp /\ FA \notin proc
    /\ job["w1"][FB] = "running" /\ attempts["w1"][FB] = 1
    /\ FB \in proc /\ FB \notin outp

\* p leaves main in this step, and its atexit cleanup has run
Exits(p) == pc[p] # "exited" /\ pc'[p] = "exited"

ClaimedFiles(p) == {f \in Names : claimCount[p][f] >= 1}
SubmittedFiles(p) == {f \in Names : submitCount[p][f] >= 1}

\* C31: when the batch of a cycle is over, every file its claim phase moved
\* into Processing has been submitted to the OCR adapter in that cycle,
\* whatever workers value the settings carry.
C31_ClaimedIsSubmitted ==
    \A p \in Workers :
        pc[p] = "release" => ClaimedFiles(p) \subseteq SubmittedFiles(p)

====
